---- MODULE Spec2Model ----
(***************************************************************************)
(* Model of cli/utils.py: the provider list BASE_URLS, the tables          *)
(* SHALLOW_AGENT_OPTIONS and DEEP_AGENT_OPTIONS, and the three lookups     *)
(* select_llm_provider, select_shallow_thinking_agent and                  *)
(* select_deep_thinking_agent.                                             *)
(*                                                                         *)
(* A Python str that the code case-folds (a provider name, a table key, a  *)
(* caller's key) is a sequence of characters, each character a one-letter  *)
(* TLA+ string; "KELVIN" stands for U+212A, "I_DOT" for U+0130 and         *)
(* "DOT_ABOVE" for U+0307.  A model identifier ("gpt-4o-mini") is never    *)
(* transformed and stays a TLA+ string.  The three module globals are      *)
(* variables: Python lets any code rebind or mutate them.                  *)
(***************************************************************************)
EXTENDS Naturals, Sequences, FiniteSets

VARIABLES
    BASE_URLS,              \* list of provider names
    SHALLOW_AGENT_OPTIONS,  \* dict: provider key -> list of model names
    DEEP_AGENT_OPTIONS,     \* dict: provider key -> list of model names
    call,                   \* the latest completed call and its outcome
    first,                  \* the first completed call and its outcome
    inputs,                 \* the keys the caller is still to pass, in order
    pc,                     \* per thread: the line it is about to execute
    frame,                  \* per thread: the locals of its running call
    ret                     \* per thread: its latest completed call

tables == <<BASE_URLS, SHALLOW_AGENT_OPTIONS, DEEP_AGENT_OPTIONS>>
threadvars == <<pc, frame, ret>>
vars == <<BASE_URLS, SHALLOW_AGENT_OPTIONS, DEEP_AGENT_OPTIONS,
          call, first, inputs, pc, frame, ret>>

-----------------------------------------------------------------------------
(* Bounds *)

\* number of threads calling concurrently
NumThreads == 2

\* longest key drawn from ShortAlphabet
MaxLen == 2

\* number of calls a caller makes in a row
MaxCalls == 2

-----------------------------------------------------------------------------
(* str.lower() *)

UpperLetters ==
    <<"A","B","C","D","E","F","G","H","I","J","K","L","M",
      "N","O","P","Q","R","S","T","U","V","W","X","Y","Z">>

LowerLetters ==
    <<"a","b","c","d","e","f","g","h","i","j","k","l","m",
      "n","o","p","q","r","s","t","u","v","w","x","y","z">>

\* the lowercase mapping of one character: a string, since U+0130 maps to two
lower_char(c) ==
    IF \E i \in 1..Len(UpperLetters) : UpperLetters[i] = c
    THEN <<LowerLetters[CHOOSE i \in 1..Len(UpperLetters) : UpperLetters[i] = c]>>
    ELSE IF c = "KELVIN" THEN <<"k">>
    ELSE IF c = "I_DOT" THEN <<"i", "DOT_ABOVE">>
    ELSE <<c>>

RECURSIVE lower(_)
lower(s) ==
    IF s = <<>> THEN <<>> ELSE lower_char(Head(s)) \o lower(Tail(s))

-----------------------------------------------------------------------------
(* The module globals as the source writes them *)

openai == <<"o","p","e","n","a","i">>
anthropic == <<"a","n","t","h","r","o","p","i","c">>
deepseek == <<"d","e","e","p","s","e","e","k">>

\* mutant: the list gains a name that differs from another in case only
BASE_URLS_with_duplicate ==
    << <<"O","p","e","n","A","I">>,
       <<"A","n","t","h","r","o","p","i","c">>,
       <<"D","e","e","p","S","e","e","k">>,
       <<"o","p","e","n","a","i">> >>

BASE_URLS_literal ==
    << <<"O","p","e","n","A","I">>,
       <<"A","n","t","h","r","o","p","i","c">>,
       <<"D","e","e","p","S","e","e","k">> >>

\* mutant: a provider is left with an empty list of models
SHALLOW_AGENT_OPTIONS_empty_list ==
    [k \in {openai, anthropic, deepseek} |->
        IF k = openai THEN <<"gpt-4o-mini">>
        ELSE IF k = anthropic THEN <<"claude-3-haiku">>
        ELSE <<>>]

SHALLOW_AGENT_OPTIONS_literal ==
    [k \in {openai, anthropic, deepseek} |->
        IF k = openai THEN <<"gpt-4o-mini">>
        ELSE IF k = anthropic THEN <<"claude-3-haiku">>
        ELSE <<"deepseek-chat">>]

\* mutant: the deep table misses a provider
DEEP_AGENT_OPTIONS_missing_key ==
    [k \in {openai, anthropic} |->
        IF k = openai THEN <<"gpt-4o">> ELSE <<"claude-3-opus">>]

DEEP_AGENT_OPTIONS_literal ==
    [k \in {openai, anthropic, deepseek} |->
        IF k = openai THEN <<"gpt-4o">>
        ELSE IF k = anthropic THEN <<"claude-3-opus">>
        ELSE <<"deepseek-reasoner">>]

-----------------------------------------------------------------------------
(* Outcomes of a call *)

Return(v) == [kind |-> "return", value |-> v]

\* an f-string "<prefix>{provider_key}": the prefix followed by the key's characters
Raise(exc, prefix, arg) == [kind |-> "raise", exc |-> exc, msg |-> <<prefix>> \o arg]

NoCall == [fn |-> "none"]

Done(fn, provider_key, outcome) ==
    [fn |-> fn, provider_key |-> provider_key, outcome |-> outcome]

-----------------------------------------------------------------------------
(* The three functions *)

EmptyDict == [k \in {} |-> k]

\* d[k] = v on a dict: a new key is added, an old one gets the new value
dict_set(d, k, v) == [x \in DOMAIN d \cup {k} |-> IF x = k THEN v ELSE d[x]]

\* line 52: {name.lower(): name for name in BASE_URLS}, after the first n names
RECURSIVE providers_upto(_, _)
providers_upto(base_urls, n) ==
    IF n = 0 THEN EmptyDict
    ELSE dict_set(providers_upto(base_urls, n - 1),
                  lower(base_urls[n]), base_urls[n])

providers_view(base_urls) == providers_upto(base_urls, Len(base_urls))

\* lines 54-56
llm_lookup(providers, key, provider_key) ==
    IF key \notin DOMAIN providers
    THEN Raise("KeyError", "Unknown LLM provider: ", provider_key)
    ELSE Return(providers[key])

\* mutant: the key is looked up as passed
select_llm_provider_no_lower(base_urls, provider_key) ==
    llm_lookup(providers_view(base_urls), provider_key, provider_key)

\* lines 52-56
select_llm_provider(base_urls, provider_key) ==
    llm_lookup(providers_view(base_urls), lower(provider_key), provider_key)

\* mutant: the message carries the lowered key
shallow_lookup_lowered_message(options, key, provider_key) ==
    IF key \notin DOMAIN options
    THEN Raise("KeyError", "Unknown provider for shallow agent: ", key)
    ELSE IF options[key] = <<>>
    THEN Raise("IndexError", "list index out of range", <<>>)
    ELSE Return(options[key][1])

\* lines 79-82: the handler catches KeyError only; [0] on an empty list raises
\* IndexError, which passes through
shallow_lookup(options, key, provider_key) ==
    IF key \notin DOMAIN options
    THEN Raise("KeyError", "Unknown provider for shallow agent: ", provider_key)
    ELSE IF options[key] = <<>>
    THEN Raise("IndexError", "list index out of range", <<>>)
    ELSE Return(options[key][1])

\* mutant: the key is looked up as passed
select_shallow_thinking_agent_no_lower(options, provider_key) ==
    shallow_lookup(options, provider_key, provider_key)

\* lines 78-82
select_shallow_thinking_agent(options, provider_key) ==
    shallow_lookup(options, lower(provider_key), provider_key)

\* lines 105-108
deep_lookup(options, key, provider_key) ==
    IF key \notin DOMAIN options
    THEN Raise("KeyError", "Unknown provider for deep agent: ", provider_key)
    ELSE IF options[key] = <<>>
    THEN Raise("IndexError", "list index out of range", <<>>)
    ELSE Return(options[key][1])

\* mutant: the key is looked up as passed
select_deep_thinking_agent_no_lower(options, provider_key) ==
    deep_lookup(options, provider_key, provider_key)

\* lines 104-108
select_deep_thinking_agent(options, provider_key) ==
    deep_lookup(options, lower(provider_key), provider_key)

-----------------------------------------------------------------------------
(* Keys the callers pass *)

to_upper(c) ==
    IF \E i \in 1..Len(LowerLetters) : LowerLetters[i] = c
    THEN UpperLetters[CHOOSE i \in 1..Len(LowerLetters) : LowerLetters[i] = c]
    ELSE c

\* every letter-casing of the lowercase word s
Casings(s) ==
    {[i \in 1..Len(s) |-> IF m[i] THEN to_upper(s[i]) ELSE s[i]] :
        m \in [1..Len(s) -> BOOLEAN]}

mistral == <<"m","i","s","t","r","a","l">>

ShortAlphabet == {"a", "I", "I_DOT", " "}

ShortKeys == UNION {[1..n -> ShortAlphabet] : n \in 0..MaxLen}

OddKeys ==
    { <<"D","e","e","p","S","e","e","KELVIN">>,
      <<"O","p","e","n","A","I_DOT">>,
      <<" ","o","p","e","n","a","i">>,
      <<"o","p","e","n","a","i"," ">>,
      <<"o","p","e","n">> }

\* a few casings of each word, for callers that make several calls
CallKeys ==
    { openai, BASE_URLS_literal[1], [i \in 1..Len(openai) |-> to_upper(openai[i])],
      <<"o","P","E","N","a","i">>,
      anthropic, BASE_URLS_literal[2], <<"A","N","T","H","R","O","P","I","C">>,
      deepseek, BASE_URLS_literal[3], <<"D","e","e","p","S","e","e","KELVIN">>,
      mistral, <<"M","i","s","t","r","a","l">>,
      <<"O","p","e","n","A","I_DOT">>, <<" ","o","p","e","n","a","i">>, <<>> }

Keys ==
    Casings(openai) \cup Casings(anthropic) \cup Casings(deepseek)
        \cup Casings(mistral) \cup OddKeys \cup ShortKeys

-----------------------------------------------------------------------------------------------------------------------------------------------------
(* A caller passing the keys of `inputs`, one call after the other *)

Threads == 1..NumThreads

NoFrame == [fn |-> "none"]

InitGlobals ==
    /\ BASE_URLS = BASE_URLS_literal
    /\ SHALLOW_AGENT_OPTIONS = SHALLOW_AGENT_OPTIONS_literal
    /\ DEEP_AGENT_OPTIONS = DEEP_AGENT_OPTIONS_literal
    /\ call = NoCall
    /\ first = NoCall
    /\ pc = [t \in Threads |-> "idle"]
    /\ frame = [t \in Threads |-> NoFrame]
    /\ ret = [t \in Threads |-> NoCall]

\* one call, its key any of Keys
Init ==
    /\ InitGlobals
    /\ inputs \in {<<k>> : k \in Keys}

\* MaxCalls calls, their keys any of CallKeys
InitCalls ==
    /\ InitGlobals
    /\ inputs \in [1..MaxCalls -> CallKeys]

Call_select_llm_provider(provider_key) ==
    /\ call' = Done("select_llm_provider", provider_key,
                    select_llm_provider(BASE_URLS, provider_key))
    /\ UNCHANGED tables

\* mutant: the shallow lookup reads the deep table
Call_select_shallow_from_deep(provider_key) ==
    /\ call' = Done("select_shallow_thinking_agent", provider_key,
                    select_shallow_thinking_agent(DEEP_AGENT_OPTIONS, provider_key))
    /\ UNCHANGED tables

\* mutant: the shallow lookup takes the model with pop(0)
Call_select_shallow_pop(provider_key) ==
    /\ call' = Done("select_shallow_thinking_agent", provider_key,
                    select_shallow_thinking_agent(SHALLOW_AGENT_OPTIONS, provider_key))
    /\ SHALLOW_AGENT_OPTIONS' =
           IF /\ lower(provider_key) \in DOMAIN SHALLOW_AGENT_OPTIONS
              /\ SHALLOW_AGENT_OPTIONS[lower(provider_key)] # <<>>
           THEN [SHALLOW_AGENT_OPTIONS EXCEPT ![lower(provider_key)] = Tail(@)]
           ELSE SHALLOW_AGENT_OPTIONS
    /\ UNCHANGED <<BASE_URLS, DEEP_AGENT_OPTIONS>>

Call_select_shallow_thinking_agent(provider_key) ==
    /\ call' = Done("select_shallow_thinking_agent", provider_key,
                    select_shallow_thinking_agent(SHALLOW_AGENT_OPTIONS, provider_key))
    /\ UNCHANGED tables

Call_select_deep_thinking_agent(provider_key) ==
    /\ call' = Done("select_deep_thinking_agent", provider_key,
                    select_deep_thinking_agent(DEEP_AGENT_OPTIONS, provider_key))
    /\ UNCHANGED tables

\* the caller's bookkeeping around a call
Caller ==
    /\ inputs' = Tail(inputs)
    /\ first' = IF first.fn = "none" THEN call' ELSE first
    /\ UNCHANGED threadvars

LookupProvider ==
    /\ inputs # <<>>
    /\ Call_select_llm_provider(Head(inputs))
    /\ Caller

LookupShallow ==
    /\ inputs # <<>>
    /\ Call_select_shallow_thinking_agent(Head(inputs))
    /\ Caller

LookupDeep ==
    /\ inputs # <<>>
    /\ Call_select_deep_thinking_agent(Head(inputs))
    /\ Caller

Next == LookupProvider \/ LookupShallow \/ LookupDeep

Spec == Init /\ [][Next]_vars

SpecCalls == InitCalls /\ [][Next]_vars

-----------------------------------------------------------------------------
(* Threads calling the three functions, interleaved between the reads of   *)
(* the module globals                                                      *)

ThreadKeys ==
    { <<"A","N","T","H","R","O","P","I","C">>,
      <<"d","e","e","p","s","e","e","KELVIN">>, <<"M","i","s","t","r","a","l">> }

InitThreads ==
    /\ InitGlobals
    /\ inputs = <<>>

\* a call's locals; overlapped records that another thread was inside a call
\* when this one began
Frame(fn, provider_key, overlapped) ==
    [fn |-> fn, provider_key |-> provider_key, key |-> <<>>,
     providers |-> EmptyDict, i |-> 0, overlapped |-> overlapped]

Enter(t, fn, line) ==
    /\ pc[t] = "idle"
    /\ \E k \in ThreadKeys :
           frame' = [frame EXCEPT
                        ![t] = Frame(fn, k, \E u \in Threads \ {t} : pc[u] # "idle")]
    /\ pc' = [pc EXCEPT ![t] = line]
    /\ ret' = [ret EXCEPT ![t] = NoCall]
    /\ UNCHANGED <<tables, call, first, inputs>>

Leave(t, outcome) ==
    /\ ret' = [ret EXCEPT
                  ![t] = [fn |-> frame[t].fn, provider_key |-> frame[t].provider_key,
                          outcome |-> outcome, overlapped |-> frame[t].overlapped]]
    /\ frame' = [frame EXCEPT ![t] = NoFrame]
    /\ pc' = [pc EXCEPT ![t] = "idle"]

enter_select_llm_provider(t) == Enter(t, "select_llm_provider", "llm_52")

enter_select_shallow_thinking_agent(t) ==
    Enter(t, "select_shallow_thinking_agent", "shallow_78")

enter_select_deep_thinking_agent(t) ==
    Enter(t, "select_deep_thinking_agent", "deep_104")

\* line 52, one turn of the comprehension's loop: the list iterator compares
\* its index with the list's current length and reads one name
llm_52(t) ==
    /\ pc[t] = "llm_52"
    /\ IF frame[t].i < Len(BASE_URLS)
       THEN /\ frame' = [frame EXCEPT
                   ![t].providers = dict_set(@, lower(BASE_URLS[frame[t].i + 1]),
                                             BASE_URLS[frame[t].i + 1]),
                   ![t].i = @ + 1]
            /\ pc' = pc
       ELSE /\ pc' = [pc EXCEPT ![t] = "llm_53"]
            /\ frame' = frame
    /\ UNCHANGED <<tables, call, first, inputs, ret>>

\* line 53
llm_53(t) ==
    /\ pc[t] = "llm_53"
    /\ frame' = [frame EXCEPT ![t].key = lower(frame[t].provider_key)]
    /\ pc' = [pc EXCEPT ![t] = "llm_54"]
    /\ UNCHANGED <<tables, call, first, inputs, ret>>

\* lines 54-56: locals only
llm_54(t) ==
    /\ pc[t] = "llm_54"
    /\ Leave(t, llm_lookup(frame[t].providers, frame[t].key, frame[t].provider_key))
    /\ UNCHANGED <<tables, call, first, inputs>>

\* mutant: key is a module global, shared by every running call
shallow_78_global_key(t) ==
    /\ pc[t] = "shallow_78"
    /\ frame' = [u \in Threads |->
                    IF frame[u].fn = "none" THEN frame[u]
                    ELSE [frame[u] EXCEPT !.key = lower(frame[t].provider_key)]]
    /\ pc' = [pc EXCEPT ![t] = "shallow_80"]
    /\ UNCHANGED <<tables, call, first, inputs, ret>>

\* line 78
shallow_78(t) ==
    /\ pc[t] = "shallow_78"
    /\ frame' = [frame EXCEPT ![t].key = lower(frame[t].provider_key)]
    /\ pc' = [pc EXCEPT ![t] = "shallow_80"]
    /\ UNCHANGED <<tables, call, first, inputs, ret>>

\* lines 79-82
shallow_80(t) ==
    /\ pc[t] = "shallow_80"
    /\ Leave(t, shallow_lookup(SHALLOW_AGENT_OPTIONS, frame[t].key,
                               frame[t].provider_key))
    /\ UNCHANGED <<tables, call, first, inputs>>

\* line 104
deep_104(t) ==
    /\ pc[t] = "deep_104"
    /\ frame' = [frame EXCEPT ![t].key = lower(frame[t].provider_key)]
    /\ pc' = [pc EXCEPT ![t] = "deep_106"]
    /\ UNCHANGED <<tables, call, first, inputs, ret>>

\* lines 105-108
deep_106(t) ==
    /\ pc[t] = "deep_106"
    /\ Leave(t, deep_lookup(DEEP_AGENT_OPTIONS, frame[t].key,
                            frame[t].provider_key))
    /\ UNCHANGED <<tables, call, first, inputs>>

NextThreads ==
    \E t \in Threads :
        \/ enter_select_llm_provider(t)
        \/ enter_select_shallow_thinking_agent(t)
        \/ enter_select_deep_thinking_agent(t)
        \/ llm_52(t)
        \/ llm_53(t)
        \/ llm_54(t)
        \/ shallow_78(t)
        \/ shallow_80(t)
        \/ deep_104(t)
        \/ deep_106(t)

SpecThreads == InitThreads /\ [][NextThreads]_vars

-----------------------------------------------------------------------------
(* Properties *)

Returned(c) == c.fn # "none" /\ c.outcome.kind = "return"

Raised(c) == c.fn # "none" /\ c.outcome.kind = "raise"

\* k spells name, letter for letter, in some casing
SameLetters(k, name) ==
    /\ Len(k) = Len(name)
    /\ \A i \in 1..Len(name) : to_upper(k[i]) = to_upper(name[i])

OPENAI == <<"O","P","E","N","A","I">>

\* the keys of the table a function searches
SearchedKeys(fn) ==
    IF fn = "select_llm_provider"
    THEN {lower(BASE_URLS[i]) : i \in 1..Len(BASE_URLS)}
    ELSE IF fn = "select_shallow_thinking_agent"
    THEN DOMAIN SHALLOW_AGENT_OPTIONS
    ELSE DOMAIN DEEP_AGENT_OPTIONS

\* C1: for each name of the provider list, select_llm_provider called with any
\* letter-casing of the name returns the name as the list spells it
C1_CanonicalName ==
    call.fn = "select_llm_provider" =>
        \A i \in 1..Len(BASE_URLS_literal) :
            SameLetters(call.provider_key, BASE_URLS_literal[i]) =>
                /\ call.outcome.kind = "return"
                /\ call.outcome.value = BASE_URLS_literal[i]

C1_Witness ==
    /\ call.fn = "select_llm_provider"
    /\ call.provider_key = OPENAI
    /\ call.outcome.kind = "return"
    /\ call.outcome.value = <<"O","p","e","n","A","I">>

\* C2: for the keys openai, anthropic and deepseek the shallow and deep
\* lookups return the first entry of the key's list, which is the documented
\* model name
ShallowDefault(k) ==
    IF k = openai THEN "gpt-4o-mini"
    ELSE IF k = anthropic THEN "claude-3-haiku"
    ELSE "deepseek-chat"

DeepDefault(k) ==
    IF k = openai THEN "gpt-4o"
    ELSE IF k = anthropic THEN "claude-3-opus"
    ELSE "deepseek-reasoner"

C2_FirstEntry ==
    call.fn # "none" /\ call.provider_key \in {openai, anthropic, deepseek} =>
        /\ call.fn = "select_shallow_thinking_agent" =>
              /\ call.outcome.kind = "return"
              /\ call.outcome.value = ShallowDefault(call.provider_key)
              /\ call.outcome.value = SHALLOW_AGENT_OPTIONS[call.provider_key][1]
        /\ call.fn = "select_deep_thinking_agent" =>
              /\ call.outcome.kind = "return"
              /\ call.outcome.value = DeepDefault(call.provider_key)
              /\ call.outcome.value = DEEP_AGENT_OPTIONS[call.provider_key][1]

C2_Witness ==
    /\ call.fn = "select_shallow_thinking_agent"
    /\ call.provider_key = anthropic
    /\ call.outcome.kind = "return"
    /\ call.outcome.value = "claude-3-haiku"

\* C3: a call fails, with the unknown-key failure and no value, exactly when
\* the lowercase form of its key is not a key of the table it searches
C3_UnknownKeyFails ==
    call.fn # "none" =>
        /\ call.outcome.kind = "raise" <=>
               lower(call.provider_key) \notin SearchedKeys(call.fn)
        /\ call.outcome.kind = "raise" =>
               /\ call.outcome.exc = "KeyError"
               /\ "value" \notin DOMAIN call.outcome

C3_Witness ==
    /\ Raised(call)
    /\ call.fn = "select_deep_thinking_agent"
    /\ call.provider_key = <<"M","i","s","t","r","a","l">>

\* C4: the failure names the table searched and carries the key as the caller
\* passed it
UnknownKeyPrefix(fn) ==
    IF fn = "select_llm_provider" THEN "Unknown LLM provider: "
    ELSE IF fn = "select_shallow_thinking_agent"
    THEN "Unknown provider for shallow agent: "
    ELSE "Unknown provider for deep agent: "

C4_FailureCarriesInput ==
    Raised(call) =>
        /\ Head(call.outcome.msg) = UnknownKeyPrefix(call.fn)
        /\ Tail(call.outcome.msg) = call.provider_key

C4_Witness ==
    /\ Raised(call)
    /\ call.fn = "select_shallow_thinking_agent"
    /\ call.provider_key # lower(call.provider_key)
    /\ Tail(call.outcome.msg) = call.provider_key

\* C5: two calls of one function whose keys are equal after lowercasing both
\* return the same value or both fail
C5_CaseInsensitive ==
    /\ first.fn # "none"
    /\ first.fn = call.fn
    /\ lower(first.provider_key) = lower(call.provider_key)
    => \/ /\ Returned(first) /\ Returned(call)
          /\ first.outcome.value = call.outcome.value
       \/ Raised(first) /\ Raised(call)

C5_Witness ==
    /\ inputs = <<>>
    /\ first.fn = "select_llm_provider"
    /\ call.fn = "select_llm_provider"
    /\ first.provider_key = <<"d","e","e","p","s","e","e","k">>
    /\ call.provider_key = <<"D","e","e","p","S","e","e","KELVIN">>
    /\ Returned(first) /\ Returned(call)
    /\ first.outcome.value = call.outcome.value

\* C6: the three globals keep their initial contents through every call, and a
\* call repeating the first call's function and key has the first call's outcome
C6_NoMutation ==
    /\ BASE_URLS = BASE_URLS_literal
    /\ SHALLOW_AGENT_OPTIONS = SHALLOW_AGENT_OPTIONS_literal
    /\ DEEP_AGENT_OPTIONS = DEEP_AGENT_OPTIONS_literal
    /\ first.fn # "none" /\ first.fn = call.fn
           /\ first.provider_key = call.provider_key
       => first.outcome = call.outcome

C6_Witness ==
    /\ Len(inputs) <= MaxCalls - 2
    /\ first.fn = "select_shallow_thinking_agent"
    /\ call.fn = "select_shallow_thinking_agent"
    /\ first.provider_key = OPENAI
    /\ call.provider_key = OPENAI
    /\ Returned(call)
    /\ SHALLOW_AGENT_OPTIONS = SHALLOW_AGENT_OPTIONS_literal

\* C7: whatever the interleaving, a thread's call ends with the outcome the
\* same call has when it runs alone on the initial globals
Alone(fn, provider_key) ==
    IF fn = "select_llm_provider"
    THEN select_llm_provider(BASE_URLS_literal, provider_key)
    ELSE IF fn = "select_shallow_thinking_agent"
    THEN select_shallow_thinking_agent(SHALLOW_AGENT_OPTIONS_literal, provider_key)
    ELSE select_deep_thinking_agent(DEEP_AGENT_OPTIONS_literal, provider_key)

C7_ThreadSafe ==
    \A t \in Threads :
        ret[t].fn # "none" =>
            ret[t].outcome = Alone(ret[t].fn, ret[t].provider_key)

C7_Witness ==
    \E t \in Threads, u \in Threads :
        /\ t # u
        /\ Returned(ret[t]) /\ ret[t].overlapped
        /\ ret[t].fn = "select_shallow_thinking_agent"
        /\ Raised(ret[u])
        /\ ret[u].fn = "select_shallow_thinking_agent"

\* C8: the shallow and the deep table have the lowercased provider names as
\* their keys, and two calls with one key both return or both fail, whichever
\* functions they call
LoweredNames == {lower(BASE_URLS[i]) : i \in 1..Len(BASE_URLS)}

C8_KeySetsAligned ==
    /\ DOMAIN SHALLOW_AGENT_OPTIONS = LoweredNames
    /\ DOMAIN DEEP_AGENT_OPTIONS = LoweredNames
    /\ first.fn # "none" /\ first.provider_key = call.provider_key
       => (Raised(first) <=> Raised(call))

C8_Witness ==
    /\ inputs = <<>>
    /\ first.fn = "select_llm_provider"
    /\ call.fn = "select_deep_thinking_agent"
    /\ first.provider_key = <<"D","e","e","p","S","e","e","k">>
    /\ call.provider_key = first.provider_key
    /\ Returned(first) /\ Returned(call)

\* C9: no two provider names are equal after lowercasing, select_llm_provider
\* maps each name of the list to itself, and maps a name it returned to that
\* same name
C9_NamesUnique ==
    /\ \A i, j \in 1..Len(BASE_URLS) :
           lower(BASE_URLS[i]) = lower(BASE_URLS[j]) => i = j
    /\ call.fn = "select_llm_provider"
           /\ (\E i \in 1..Len(BASE_URLS) : BASE_URLS[i] = call.provider_key)
       => /\ call.outcome.kind = "return"
          /\ call.outcome.value = call.provider_key
    /\ first.fn = "select_llm_provider" /\ Returned(first)
           /\ call.fn = "select_llm_provider"
           /\ call.provider_key = first.outcome.value
       => /\ call.outcome.kind = "return"
          /\ call.outcome.value = first.outcome.value

C9_Witness ==
    /\ inputs = <<>>
    /\ first.fn = "select_llm_provider"
    /\ first.provider_key = OPENAI
    /\ Returned(first)
    /\ call.fn = "select_llm_provider"
    /\ call.provider_key = first.outcome.value
    /\ call.provider_key # first.provider_key
    /\ Returned(call)

\* C10: every list of the shallow and the deep table is non-empty, and the
\* shallow and deep lookups fail with the unknown-key failure only, exactly
\* when the lowercased key is not a key of the table
C10_OnlyUnknownKey ==
    /\ \A k \in DOMAIN SHALLOW_AGENT_OPTIONS : SHALLOW_AGENT_OPTIONS[k] # <<>>
    /\ \A k \in DOMAIN DEEP_AGENT_OPTIONS : DEEP_AGENT_OPTIONS[k] # <<>>
    /\ call.fn = "select_shallow_thinking_agent" =>
          IF lower(call.provider_key) \in DOMAIN SHALLOW_AGENT_OPTIONS
          THEN call.outcome.kind = "return"
          ELSE call.outcome.kind = "raise" /\ call.outcome.exc = "KeyError"
    /\ call.fn = "select_deep_thinking_agent" =>
          IF lower(call.provider_key) \in DOMAIN DEEP_AGENT_OPTIONS
          THEN call.outcome.kind = "return"
          ELSE call.outcome.kind = "raise" /\ call.outcome.exc = "KeyError"

C10_Witness ==
    /\ call.fn = "select_shallow_thinking_agent"
    /\ call.provider_key = <<"D","E","E","P","S","E","E","K">>
    /\ call.outcome.kind = "return"
    /\ call.outcome.value = SHALLOW_AGENT_OPTIONS[deepseek][1]

====
